---------------------------- MODULE Spec2Model ----------------------------
(* A model of src/app.py: the chunker (split_text_into_chunks), the retry  *)
(* loop (generate_audio_with_retries), and the batch pipeline (main,       *)
(* process_file, combine_audio_files, handle_exit_signal).                 *)
(*                                                                          *)
(* Three specifications share the variables:                               *)
(*   SpecSplit  one call of split_text_into_chunks, loop iteration by      *)
(*              loop iteration, for every bounded text and max_length;     *)
(*   SpecRetry  one call of generate_audio_with_retries, attempt by        *)
(*              attempt, for every bounded retry limit;                    *)
(*   Spec       a batch run of main() over the discovered documents.       *)
EXTENDS Integers, Sequences, FiniteSets, TLC

VARIABLES
    \* ---- split_text_into_chunks (one call) ----
    sInput,      \* the argument text
    sMax,        \* the argument max_length
    sText,       \* the local `text` (what remains)
    sChunks,     \* the local `chunks`
    sCuts,       \* the split_index chosen by each loop iteration, in order
    sPc,         \* "idle" | "loop" | "done"
    \* ---- generate_audio_with_retries (one call) ----
    rRetries,    \* the argument retries
    rIndex,      \* the argument chunk_index
    rStem,       \* the argument file_stem
    rAttempt,    \* the loop variable `attempt`
    rCalls,      \* generate_audio calls made so far
    rLastErr,    \* the attempt whose exception was caught last (-1: none)
    rResult,     \* the returned path, or NoPath
    rRaised,     \* the attempt whose exception the call raised (-1: none)
    rPc,         \* "idle" | "call" | "returned" | "raised"
    \* ---- a batch run: main(), process_file, combine_audio_files ----
    mainPc,      \* where the main thread is: "idle" | "submit" | "wait" |
                 \* "unwind" | "finally" | "exit" | "exited"
    docPc,       \* per document, where its process_file call is
    docError,    \* per document, the stage whose exception line 168 logged
    chunks,      \* per document, the local `chunks`
    tasks,       \* per document, the futures of its chunk tasks
    yielded,     \* per document, the futures as_completed has yielded, in order
    audio_files, \* per document, the local `audio_files`
    ffmpegOk,    \* per document, whether its ffmpeg run returned 0
    source,      \* per document, where its text file is: "input" | "processed"
    output,      \* per document, the manifest its final artifact was built from
    tempExists,  \* TEMP_FOLDER exists
    manifest     \* the content of TEMP_FOLDER/concat_list.txt, or Absent

splitVars == <<sInput, sMax, sText, sChunks, sCuts, sPc>>
retryVars == <<rRetries, rIndex, rStem, rAttempt, rCalls, rLastErr, rResult, rRaised, rPc>>
batchVars == <<mainPc, docPc, docError, chunks, tasks, yielded, audio_files, ffmpegOk,
               source, output, tempExists, manifest>>

vars == <<splitVars, retryVars, batchVars>>
notSplit == <<retryVars, batchVars>>
notRetry == <<splitVars, batchVars>>
notBatch == <<splitVars, retryVars>>

-----------------------------------------------------------------------------
(* Bounds of the model. *)

MaxTextLen == 5
MaxChunkLen == 3
MaxRetries == 4
NumStems == 3
MaxIndex == 2
NumDocs == 3

(* Configuration (environment variables and defaults of the program). *)

MAX_WORKERS == 2
MAX_CHUNK_SIZE == 2
DefaultRetries == 3

-----------------------------------------------------------------------------
(* Text: a Python str is a sequence of characters. *)

SP == " "
NL == "\n"
Alphabet == {"a", "b", SP, NL}

\* str.strip() with no argument strips every whitespace character.
IsSpace(c) == c \in {SP, NL}

Texts == UNION {[1..n -> Alphabet] : n \in 0..MaxTextLen}

\* text[:k]
Prefix(text, k) == SubSeq(text, 1, k)

\* text[k:]
Suffix(text, k) == SubSeq(text, k + 1, Len(text))

\* text.lstrip()
RECURSIVE LStrip(_)
LStrip(text) ==
    IF text # <<>> /\ IsSpace(Head(text)) THEN LStrip(Tail(text)) ELSE text

\* text.rstrip()
RECURSIVE RStrip(_)
RStrip(text) ==
    IF text # <<>> /\ IsSpace(text[Len(text)])
    THEN RStrip(SubSeq(text, 1, Len(text) - 1))
    ELSE text

\* text.strip()
Strip(text) == RStrip(LStrip(text))

\* text.rfind(ch, 0, end): the greatest 0-based index i < min(end, len(text))
\* with text[i] = ch, or -1.
RFind(text, ch, end) ==
    LET hi == IF end < Len(text) THEN end ELSE Len(text)
        hits == {i \in 0..(hi - 1) : text[i + 1] = ch}
    IN IF hits = {} THEN -1 ELSE CHOOSE i \in hits : \A j \in hits : j <= i

\* lines 58-60: the split_index of one loop iteration.
ForcedCutOffByOne(text, max_length) ==
    LET found == RFind(text, SP, max_length)
    IN IF found = -1 THEN max_length + 1 ELSE found

SplitIndex(text, max_length) ==
    LET found == RFind(text, SP, max_length)
    IN IF found = -1 THEN max_length ELSE found

\* line 62: the remaining text after a cut at split_index.
RemainderUnstripped(text, split_index) == Suffix(text, split_index)

RemainderDropsOne(text, split_index) == Strip(Suffix(text, split_index + 1))

Remainder(text, split_index) == Strip(Suffix(text, split_index))

\* lines 56-65 as a function, for the callers of split_text_into_chunks.
RECURSIVE SplitTextIntoChunks(_, _)
SplitTextIntoChunks(text, max_length) ==
    IF Len(text) > max_length
    THEN LET split_index == SplitIndex(text, max_length)
         IN <<Prefix(text, split_index)>>
              \o SplitTextIntoChunks(Remainder(text, split_index), max_length)
    ELSE IF text # <<>> THEN <<text>> ELSE <<>>

-----------------------------------------------------------------------------
(* split_text_into_chunks, one loop iteration per step. *)

SplitIdle ==
    /\ sInput = <<>>
    /\ sMax = 1
    /\ sText = <<>>
    /\ sChunks = <<>>
    /\ sCuts = <<>>
    /\ sPc = "idle"

SplitInit ==
    /\ sInput \in Texts
    /\ sMax \in 1..MaxChunkLen
    /\ sText = sInput
    /\ sChunks = <<>>
    /\ sCuts = <<>>
    /\ sPc = "loop"

\* lines 57-62: one iteration of the while loop.
SplitLoop ==
    /\ sPc = "loop"
    /\ Len(sText) > sMax
    /\ LET split_index == SplitIndex(sText, sMax)
       IN /\ sChunks' = Append(sChunks, Prefix(sText, split_index))
          /\ sText' = Remainder(sText, split_index)
          /\ sCuts' = Append(sCuts, split_index)
    /\ UNCHANGED <<sInput, sMax, sPc>>
    /\ UNCHANGED notSplit

\* lines 63-65: the loop exit, the last chunk and the return.
SplitReturn ==
    /\ sPc = "loop"
    /\ Len(sText) <= sMax
    /\ sChunks' = IF sText # <<>> THEN Append(sChunks, sText) ELSE sChunks
    /\ sPc' = "done"
    /\ UNCHANGED <<sInput, sMax, sText, sCuts>>
    /\ UNCHANGED notSplit

SplitNext == SplitLoop \/ SplitReturn

-----------------------------------------------------------------------------
(* Artifact paths. *)

\* A file name is a sequence of tokens; a path is a directory under
\* TEMP_FOLDER (a stem) and a file name.
PART == "_part_"
MP3 == ".mp3"

\* str(n) and int(s), for the one-digit numbers the model needs.
Digits == <<"0", "1", "2", "3", "4", "5", "6", "7", "8", "9">>

Numeral(n) == Digits[n + 1]

\* file.stem of the documents found in INPUT_FOLDER; a stem may itself hold
\* the separator "_part_".
StemOf(d) == IF d = 1 THEN <<"a", PART, "7">> ELSE <<"doc", Numeral(d)>>

NoPath == [dir |-> <<>>, name |-> <<>>]

\* lines 82-85: the artifact path of a chunk; the suffix is 1-based.
AudioPath(d, chunk_index) ==
    [dir |-> StemOf(d), name |-> StemOf(d) \o <<PART, Numeral(chunk_index + 1), MP3>>]

\* Path.stem: the name without its last suffix.
PathStem(path) == SubSeq(path.name, 1, Len(path.name) - 1)

\* s.split(sep)[-1]: what follows the last occurrence of sep.
LastSegment(tokens, sep) ==
    LET at == {i \in 1..Len(tokens) : tokens[i] = sep}
        last == IF at = {} THEN 0 ELSE CHOOSE i \in at : \A j \in at : j <= i
    IN SubSeq(tokens, last + 1, Len(tokens))

\* s.split(sep)[1]: what lies between the first and the second occurrence.
SecondSegment(tokens, sep) ==
    LET at == {i \in 1..Len(tokens) : tokens[i] = sep}
        first == CHOOSE i \in at : \A j \in at : i <= j
        rest == {i \in at : i > first}
        second == IF rest = {} THEN Len(tokens) + 1
                  ELSE CHOOSE i \in rest : \A j \in rest : i <= j
    IN SubSeq(tokens, first + 1, second - 1)

\* int(s) of a decimal numeral; -1 stands for ValueError.
ParseInt(tokens) ==
    IF Len(tokens) = 1 /\ \E n \in 0..9 : Numeral(n) = tokens[1]
    THEN CHOOSE n \in 0..9 : Numeral(n) = tokens[1]
    ELSE -1

-----------------------------------------------------------------------------
(* generate_audio_with_retries, one attempt per step. The backoff sleep of *)
(* line 75 only takes time and is part of the failed attempt's step.       *)

\* lines 72-77: what the except clause does after a failed attempt.
RetriesOnLastAttempt(attempt, retries) ==
    IF attempt < retries THEN "retry" ELSE "raise"

OnFailure(attempt, retries) ==
    IF attempt < retries - 1 THEN "retry" ELSE "raise"

RetryIdle ==
    /\ rRetries = 1
    /\ rIndex = 0
    /\ rStem = 1
    /\ rAttempt = 0
    /\ rCalls = 0
    /\ rLastErr = -1
    /\ rResult = NoPath
    /\ rRaised = -1
    /\ rPc = "idle"

RetryInit ==
    /\ rRetries \in 1..MaxRetries
    /\ rIndex \in 0..MaxIndex
    /\ rStem \in 1..NumStems
    /\ rAttempt = 0
    /\ rCalls = 0
    /\ rLastErr = -1
    /\ rResult = NoPath
    /\ rRaised = -1
    /\ rPc = "call"

\* line 71: generate_audio returns a path.
AttemptSucceeds ==
    /\ rPc = "call"
    /\ rCalls' = rCalls + 1
    /\ rResult' = AudioPath(rStem, rIndex)
    /\ rPc' = "returned"
    /\ UNCHANGED <<rRetries, rIndex, rStem, rAttempt, rLastErr, rRaised>>
    /\ UNCHANGED notRetry

\* lines 72-77: generate_audio raises; retry after the backoff sleep, or
\* re-raise the exception just caught.
AttemptFails ==
    /\ rPc = "call"
    /\ rCalls' = rCalls + 1
    /\ rLastErr' = rAttempt
    /\ IF OnFailure(rAttempt, rRetries) = "retry"
       THEN /\ rAttempt' = rAttempt + 1
            /\ UNCHANGED <<rRaised, rPc>>
       ELSE /\ rRaised' = rAttempt
            /\ rPc' = "raised"
            /\ UNCHANGED rAttempt
    /\ UNCHANGED <<rRetries, rIndex, rStem, rResult>>
    /\ UNCHANGED notRetry

RetryNext == AttemptSucceeds \/ AttemptFails

-----------------------------------------------------------------------------
(* A batch run. The main thread, the MAX_WORKERS threads of main()'s pool   *)
(* (each runs process_file for one document) and the MAX_WORKERS threads    *)
(* of each process_file's pool (each runs generate_audio_with_retries for   *)
(* one chunk) interleave; a step is what one thread does between two        *)
(* points where another thread's effect can be seen.                        *)

Docs == 1..NumDocs

\* What the *.txt files of INPUT_FOLDER may hold: the first document any of
\* LongTexts (up to three chunks), the others one of ShortTexts.
LongTexts ==
    { <<>>,
      <<NL>>,
      <<"a", "b">>,
      <<SP, "a", "b">>,
      <<"a", "b", SP, "a", "b", NL>>,
      <<"a", "b", SP, "a", "b", SP, "a", "b">> }

ShortTexts == { <<>>, <<"a", "b">> }

TextsOf(d) == IF d = 1 THEN LongTexts ELSE ShortTexts

Absent == [exists |-> FALSE, lines |-> <<>>]
NoOutput == [built |-> FALSE, from |-> <<>>]

InProcessFile == {"collect", "raise", "combine", "ffmpeg", "finally", "unlink"}
Outcomes == {"completed", "failed", "skipped"}

Range(seq) == {seq[i] : i \in 1..Len(seq)}

\* The chunk tasks of d that a worker thread is executing.
Running(d) == {i \in 1..Len(tasks[d]) : tasks[d][i].st = "running"}

\* The documents that a worker thread of main()'s pool is processing.
Processing == {d \in Docs : docPc[d] \in InProcessFile}

\* ThreadPoolExecutor(max_workers=MAX_WORKERS), lines 141 and 174: a queued
\* work item starts only on one of the pool's max_workers threads.
WorkerAlwaysFree(busy) == TRUE

WorkerFree(busy) == busy < MAX_WORKERS

\* Leaving `with ThreadPoolExecutor(...)` (line 141) calls shutdown(wait=True):
\* it returns when every submitted task has run to its end.
PoolNeverWaits(d) == TRUE

PoolDrained(d) == \A i \in 1..Len(tasks[d]) : tasks[d][i].st \in {"done", "failed"}

\* line 147: future.result() re-raises the exception of a failed task.
ResultNeverRaises(task) == FALSE

ResultRaises(task) == task.st = "failed"

\* line 150: the sort key of an artifact path.
SortKeyAfterFirstSeparator(path) == ParseInt(SecondSegment(PathStem(path), PART))

SortKey(path) == ParseInt(LastSegment(PathStem(path), PART))

\* line 150: audio_files.sort(key=...), a stable sort: an element goes
\* after those with a smaller key and after the earlier ones with its key.
SortAudioFiles(files) ==
    LET Before(i) == {j \in 1..Len(files) :
                        \/ SortKey(files[j]) < SortKey(files[i])
                        \/ SortKey(files[j]) = SortKey(files[i]) /\ j < i}
    IN [k \in 1..Len(files) |->
          files[CHOOSE i \in 1..Len(files) : Cardinality(Before(i)) = k - 1]]

\* lines 160-164: the source is moved once combine_audio_files has returned.
MovesSourceAnyway(combined) == TRUE

MovesSource(combined) == combined

BatchIdle ==
    /\ mainPc = "idle"
    /\ docPc = [d \in Docs |-> "found"]
    /\ docError = [d \in Docs |-> "none"]
    /\ chunks = [d \in Docs |-> <<>>]
    /\ tasks = [d \in Docs |-> <<>>]
    /\ yielded = [d \in Docs |-> <<>>]
    /\ audio_files = [d \in Docs |-> <<>>]
    /\ ffmpegOk = [d \in Docs |-> FALSE]
    /\ source = [d \in Docs |-> "input"]
    /\ output = [d \in Docs |-> NoOutput]
    /\ tempExists = TRUE
    /\ manifest = Absent

\* lines 35-37 and 51-52 have run: the folders exist, the handlers are set,
\* and main() is about to submit the documents found.
BatchInit ==
    /\ mainPc = "submit"
    /\ docPc = [d \in Docs |-> "found"]
    /\ docError = [d \in Docs |-> "none"]
    /\ chunks = [d \in Docs |-> <<>>]
    /\ tasks = [d \in Docs |-> <<>>]
    /\ yielded = [d \in Docs |-> <<>>]
    /\ audio_files = [d \in Docs |-> <<>>]
    /\ ffmpegOk = [d \in Docs |-> FALSE]
    /\ source = [d \in Docs |-> "input"]
    /\ output = [d \in Docs |-> NoOutput]
    /\ tempExists = TRUE
    /\ manifest = Absent

\* The interpreter is finalizing: it joins the pools' threads, which run
\* every work item already queued, and submit() raises RuntimeError.
Finalizing == mainPc \in {"exit", "exited"}

\* process_file returns (lines 134, 166, 168): its locals are gone.
Return(d, outcome, error) ==
    /\ docPc' = [docPc EXCEPT ![d] = outcome]
    /\ docError' = [docError EXCEPT ![d] = error]
    /\ chunks' = [chunks EXCEPT ![d] = <<>>]
    /\ tasks' = [tasks EXCEPT ![d] = <<>>]
    /\ yielded' = [yielded EXCEPT ![d] = <<>>]
    /\ audio_files' = [audio_files EXCEPT ![d] = <<>>]
    /\ ffmpegOk' = [ffmpegOk EXCEPT ![d] = FALSE]

\* lines 174-178: main() submits process_file for every *.txt file.
MainSubmit ==
    /\ mainPc = "submit"
    /\ mainPc' = "wait"
    /\ docPc' = [d \in Docs |-> "queued"]
    /\ UNCHANGED <<docError, chunks, tasks, yielded, audio_files, ffmpegOk,
                   source, output, tempExists, manifest>>
    /\ UNCHANGED notBatch

\* lines 124-130, 168: a pool thread starts process_file and the read fails.
ReadFails(d) ==
    /\ docPc[d] = "queued"
    /\ \A e \in Docs : e < d => docPc[e] # "queued"
    /\ WorkerFree(Cardinality(Processing))
    /\ Return(d, "failed", "read")
    /\ UNCHANGED <<mainPc, source, output, tempExists, manifest>>
    /\ UNCHANGED notBatch

\* lines 124-145: a pool thread starts process_file: read, skip an empty
\* text, split, submit one task per chunk to a new pool.
StartDocument(d) ==
    /\ docPc[d] = "queued"
    /\ \A e \in Docs : e < d => docPc[e] # "queued"
    /\ WorkerFree(Cardinality(Processing))
    /\ \E text_content \in TextsOf(d) :
          IF Strip(text_content) = <<>>
          THEN Return(d, "skipped", "none")
          ELSE IF Finalizing
          THEN Return(d, "failed", "dispatch")
          ELSE LET cs == SplitTextIntoChunks(text_content, MAX_CHUNK_SIZE)
               IN /\ chunks' = [chunks EXCEPT ![d] = cs]
                  /\ tasks' = [tasks EXCEPT ![d] =
                                 [i \in 1..Len(cs) |-> [st |-> "queued", attempt |-> 0]]]
                  /\ docPc' = [docPc EXCEPT ![d] = "collect"]
                  /\ UNCHANGED <<docError, yielded, audio_files, ffmpegOk>>
    /\ UNCHANGED <<mainPc, source, output, tempExists, manifest>>
    /\ UNCHANGED notBatch

\* line 143: a thread of d's pool takes the next queued task (FIFO).
StartTask(d, i) ==
    /\ docPc[d] \in {"collect", "raise"}
    /\ i \in 1..Len(tasks[d])
    /\ tasks[d][i].st = "queued"
    /\ \A j \in 1..(i - 1) : tasks[d][j].st # "queued"
    /\ WorkerFree(Cardinality(Running(d)))
    /\ tasks' = [tasks EXCEPT ![d][i] = [st |-> "running", attempt |-> 0]]
    /\ UNCHANGED <<mainPc, docPc, docError, chunks, yielded, audio_files, ffmpegOk,
                   source, output, tempExists, manifest>>
    /\ UNCHANGED notBatch

\* lines 71, 82-97: an attempt creates TEMP_FOLDER/<stem> (with parents),
\* calls the service and writes the artifact; the task returns its path.
AttemptOk(d, i) ==
    /\ i \in Running(d)
    /\ tempExists' = TRUE
    /\ tasks' = [tasks EXCEPT ![d][i] = [st |-> "done", attempt |-> 0]]
    /\ UNCHANGED <<mainPc, docPc, docError, chunks, yielded, audio_files, ffmpegOk,
                   source, output, manifest>>
    /\ UNCHANGED notBatch

\* lines 72-77, 82-83, 98-100: an attempt creates the directory and fails;
\* the task sleeps and retries, or ends with the exception.
AttemptFail(d, i) ==
    /\ i \in Running(d)
    /\ tempExists' = TRUE
    /\ tasks' = [tasks EXCEPT ![d][i] =
                   IF OnFailure(@.attempt, DefaultRetries) = "retry"
                   THEN [st |-> "running", attempt |-> @.attempt + 1]
                   ELSE [st |-> "failed", attempt |-> 0]]
    /\ UNCHANGED <<mainPc, docPc, docError, chunks, yielded, audio_files, ffmpegOk,
                   source, output, manifest>>
    /\ UNCHANGED notBatch

\* lines 146-147: as_completed yields a finished future; its result is
\* appended, or its exception leaves the loop.
Collect(d, i) ==
    /\ docPc[d] = "collect"
    /\ i \in 1..Len(tasks[d])
    /\ i \notin Range(yielded[d])
    /\ tasks[d][i].st \in {"done", "failed"}
    /\ yielded' = [yielded EXCEPT ![d] = Append(@, i)]
    /\ IF ResultRaises(tasks[d][i])
       THEN /\ docPc' = [docPc EXCEPT ![d] = "raise"]
            /\ docError' = [docError EXCEPT ![d] = "synthesis"]
            /\ UNCHANGED audio_files
       ELSE /\ audio_files' = [audio_files EXCEPT ![d] = Append(@, AudioPath(d, i - 1))]
            /\ UNCHANGED <<docPc, docError>>
    /\ UNCHANGED <<mainPc, chunks, tasks, ffmpegOk, source, output, tempExists, manifest>>
    /\ UNCHANGED notBatch

\* lines 141, 150-157: the loop ended, the pool shuts down, the artifacts
\* are sorted and the output folder is made.
SortArtifacts(d) ==
    /\ docPc[d] = "collect"
    /\ Len(yielded[d]) = Len(tasks[d])
    /\ PoolDrained(d)
    /\ audio_files' = [audio_files EXCEPT ![d] = SortAudioFiles(@)]
    /\ docPc' = [docPc EXCEPT ![d] = "combine"]
    /\ UNCHANGED <<mainPc, docError, chunks, tasks, yielded, ffmpegOk,
                   source, output, tempExists, manifest>>
    /\ UNCHANGED notBatch

\* lines 141, 167-168: an exception leaves the with block, which waits for
\* the pool; then process_file logs it and returns.
HandleChunkError(d) ==
    /\ docPc[d] = "raise"
    /\ PoolDrained(d)
    /\ Return(d, "failed", docError[d])
    /\ UNCHANGED <<mainPc, source, output, tempExists, manifest>>
    /\ UNCHANGED notBatch

\* lines 104-107: combine_audio_files writes the manifest; open() fails
\* when TEMP_FOLDER is gone.
WriteManifest(d) ==
    /\ docPc[d] = "combine"
    /\ IF tempExists
       THEN /\ manifest' = [exists |-> TRUE, lines |-> audio_files[d]]
            /\ docPc' = [docPc EXCEPT ![d] = "ffmpeg"]
            /\ UNCHANGED <<docError, chunks, tasks, yielded, audio_files, ffmpegOk>>
       ELSE /\ Return(d, "failed", "assembly")
            /\ UNCHANGED manifest
    /\ UNCHANGED <<mainPc, source, output, tempExists>>
    /\ UNCHANGED notBatch

\* lines 109-119: ffmpeg reads the manifest and builds the final artifact,
\* or fails.
RunFfmpeg(d) ==
    /\ docPc[d] = "ffmpeg"
    /\ \E ok \in (IF manifest.exists THEN BOOLEAN ELSE {FALSE}) :
          /\ ffmpegOk' = [ffmpegOk EXCEPT ![d] = ok]
          /\ output' = [output EXCEPT ![d] =
                          IF ok THEN [built |-> TRUE, from |-> manifest.lines] ELSE @]
    /\ docPc' = [docPc EXCEPT ![d] = "finally"]
    /\ UNCHANGED <<mainPc, docError, chunks, tasks, yielded, audio_files,
                   source, tempExists, manifest>>
    /\ UNCHANGED notBatch

\* lines 160-168 after combine_audio_files: move the source and return, or
\* log the exception and return.
AfterCombine(d, combined) ==
    /\ source' = [source EXCEPT ![d] = IF MovesSource(combined) THEN "processed" ELSE @]
    /\ IF combined
       THEN Return(d, "completed", "none")
       ELSE Return(d, "failed", "assembly")

\* lines 120-121: the finally clause tests whether the manifest exists.
ManifestExists(d) ==
    /\ docPc[d] = "finally"
    /\ IF manifest.exists
       THEN /\ docPc' = [docPc EXCEPT ![d] = "unlink"]
            /\ UNCHANGED <<docError, chunks, tasks, yielded, audio_files, ffmpegOk, source>>
       ELSE AfterCombine(d, ffmpegOk[d])
    /\ UNCHANGED <<mainPc, output, tempExists, manifest>>
    /\ UNCHANGED notBatch

\* line 122: the finally clause unlinks the manifest; unlink() raises
\* FileNotFoundError when the file is gone by now.
UnlinkManifest(d) ==
    /\ docPc[d] = "unlink"
    /\ IF manifest.exists
       THEN /\ manifest' = Absent
            /\ AfterCombine(d, ffmpegOk[d])
       ELSE /\ UNCHANGED manifest
            /\ AfterCombine(d, FALSE)
    /\ UNCHANGED <<mainPc, output, tempExists>>
    /\ UNCHANGED notBatch

\* lines 179-183: every future of main()'s pool is done; the with block ends.
MainPoolStopsAtFirstFailure ==
    /\ mainPc \in {"wait", "unwind"}
    /\ \A d \in Docs : docPc[d] \in Outcomes \cup {"queued"}
    /\ \/ \A d \in Docs : docPc[d] \in Outcomes
       \/ \E d \in Docs : docPc[d] = "failed"
    /\ mainPc' = "finally"
    /\ docPc' = [d \in Docs |-> IF docPc[d] = "queued" THEN "found" ELSE docPc[d]]
    /\ UNCHANGED <<docError, chunks, tasks, yielded, audio_files, ffmpegOk,
                   source, output, tempExists, manifest>>
    /\ UNCHANGED notBatch

MainPoolDone ==
    /\ mainPc \in {"wait", "unwind"}
    /\ \A d \in Docs : docPc[d] \in Outcomes
    /\ mainPc' = "finally"
    /\ UNCHANGED <<docPc, docError, chunks, tasks, yielded, audio_files, ffmpegOk,
                   source, output, tempExists, manifest>>
    /\ UNCHANGED notBatch

\* lines 184-188: the finally clause of main() removes TEMP_FOLDER.
MainFinally ==
    /\ mainPc = "finally"
    /\ mainPc' = "exit"
    /\ tempExists' = FALSE
    /\ manifest' = Absent
    /\ UNCHANGED <<docPc, docError, chunks, tasks, yielded, audio_files, ffmpegOk,
                   source, output>>
    /\ UNCHANGED notBatch

\* After main(): the interpreter exits once no pool thread has work left.
ProcessExit ==
    /\ mainPc = "exit"
    /\ \A d \in Docs : docPc[d] \in Outcomes \cup {"found"}
    /\ mainPc' = "exited"
    /\ UNCHANGED <<docPc, docError, chunks, tasks, yielded, audio_files, ffmpegOk,
                   source, output, tempExists, manifest>>
    /\ UNCHANGED notBatch

\* lines 45-49: SIGINT or SIGTERM. The handler runs on the main thread,
\* removes TEMP_FOLDER and raises SystemExit there: out of the submit or the
\* as_completed loop into the with block's exit (which waits for the pool),
\* out of that wait into main()'s finally, out of the finally to the exit.
\* The pools' threads are not interrupted.
Signal ==
    /\ mainPc \in {"submit", "wait", "unwind", "finally"}
    /\ tempExists' = FALSE
    /\ manifest' = Absent
    /\ mainPc' = CASE mainPc = "submit" -> "finally"
                   [] mainPc = "wait" -> "unwind"
                   [] mainPc = "unwind" -> "finally"
                   [] mainPc = "finally" -> "exit"
    /\ UNCHANGED <<docPc, docError, chunks, tasks, yielded, audio_files, ffmpegOk,
                   source, output>>
    /\ UNCHANGED notBatch

\* A step of a batch run that no signal interrupts.
BatchStep ==
    \/ MainSubmit
    \/ MainPoolDone
    \/ MainFinally
    \/ ProcessExit
    \/ \E d \in Docs :
          \/ ReadFails(d)
          \/ StartDocument(d)
          \/ SortArtifacts(d)
          \/ HandleChunkError(d)
          \/ WriteManifest(d)
          \/ RunFfmpeg(d)
          \/ ManifestExists(d)
          \/ UnlinkManifest(d)
          \/ \E i \in 1..Len(tasks[d]) : StartTask(d, i)
          \/ \E i \in 1..Len(tasks[d]) : AttemptOk(d, i)
          \/ \E i \in 1..Len(tasks[d]) : AttemptFail(d, i)
          \/ \E i \in 1..Len(tasks[d]) : Collect(d, i)

BatchNext == BatchStep \/ Signal

-----------------------------------------------------------------------------
(* Claims about split_text_into_chunks, checked under SpecSplit. *)

RECURSIVE Flatten(_)
Flatten(cs) == IF cs = <<>> THEN <<>> ELSE Head(cs) \o Flatten(Tail(cs))

NonSpace(text) == SelectSeq(text, LAMBDA c : ~IsSpace(c))

AllSpace(text) == \A i \in 1..Len(text) : IsSpace(text[i])

\* t is the chunks cs in order with a run of whitespace (possibly empty)
\* between consecutive chunks; with atEnd, also after the last chunk.
RECURSIVE Rebuilds(_, _, _)
Rebuilds(cs, t, atEnd) ==
    IF cs = <<>>
    THEN t = <<>> \/ (atEnd /\ AllSpace(t))
    ELSE LET c == Head(cs)
         IN /\ Len(c) <= Len(t)
            /\ Prefix(t, Len(c)) = c
            /\ IF Len(cs) = 1
               THEN \/ Suffix(t, Len(c)) = <<>>
                    \/ atEnd /\ AllSpace(Suffix(t, Len(c)))
               ELSE \E k \in Len(c)..Len(t) :
                        /\ AllSpace(SubSeq(t, Len(c) + 1, k))
                        /\ Rebuilds(Tail(cs), Suffix(t, k), atEnd)

\* C9: every chunk collected so far, and every chunk returned, has length at
\* most max_length, also when a word longer than max_length forces a cut.
C9_ChunkLengthBounded ==
    \A i \in 1..Len(sChunks) : Len(sChunks[i]) <= sMax

\* C9 witness: the call returned, the text is one word longer than
\* max_length, and a forced cut of exactly max_length characters was made.
C9_Witness ==
    /\ sPc = "done"
    /\ Len(sInput) > sMax
    /\ NonSpace(sInput) = sInput
    /\ \E i \in 1..Len(sChunks) : Len(sChunks[i]) = sMax
    /\ Len(sChunks) >= 2

C11_ShortTextStripped ==
    (sPc = "done" /\ sInput # <<>> /\ Len(sInput) <= sMax) =>
        sChunks = <<Strip(sInput)>>

\* C12: a call with the empty text or with a text made only of whitespace,
\* shorter or longer than max_length, returns zero chunks.
C12_WhitespaceYieldsNoChunk ==
    (sPc = "done" /\ AllSpace(sInput)) => sChunks = <<>>

\* The cut that C18 describes: the greatest index below max_length at which
\* the text has a whitespace character, or max_length when there is none.
WhitespaceCut(text, max_length) ==
    LET hits == {p \in 0..(max_length - 1) : IsSpace(text[p + 1])}
    IN IF hits = {} THEN max_length ELSE CHOOSE p \in hits : \A q \in hits : q <= p

\* C18: every loop iteration cuts at the last whitespace character of the
\* window, and at max_length only when the window has no whitespace
\* character. (The window is read here as the indices below max_length, the
\* reading most favourable to the code.)
C18_CutAtLastWhitespace ==
    [][(sPc = "loop" /\ Len(sCuts') = Len(sCuts) + 1) =>
          sCuts'[Len(sCuts')] = WhitespaceCut(sText, sMax)]_vars

\* C19: every call returns, and every iteration of the loop leaves a
\* remaining text strictly shorter than the one it started with (checked
\* under FairSpecSplit: the thread running the call keeps running).
C19_SplitTerminates ==
    /\ <>(sPc = "done")
    /\ [][(sPc = "loop" /\ Len(sCuts') = Len(sCuts) + 1) =>
             Len(sText') < Len(sText)]_vars

\* C19 witness: a call that returned after an iteration that cut at index 0
\* (the text began with a space), where only strip() shortened the text,
\* and at least one more iteration.
C19_Witness ==
    /\ sPc = "done"
    /\ Len(sCuts) >= 2
    /\ sCuts[1] = 0

\* C20: the split_index of every loop iteration is at least 1, and no chunk
\* collected or returned is the empty string, also for a text that begins
\* with whitespace.
C20_NoEmptyChunk ==
    /\ \A i \in 1..Len(sCuts) : sCuts[i] >= 1
    /\ \A i \in 1..Len(sChunks) : sChunks[i] # <<>>

-----------------------------------------------------------------------------
(* Claims about generate_audio_with_retries, checked under SpecRetry. *)

\* C7: at most `retries` attempts are made; a call whose first k < retries
\* attempts fail and whose next succeeds returns the chunk's one artifact
\* after exactly k+1 attempts; a call whose attempts all fail raises the
\* exception of the last attempt.
C7_RetryLimit ==
    /\ rCalls <= rRetries
    /\ rPc = "returned" =>
           /\ rResult = AudioPath(rStem, rIndex)
           /\ rLastErr + 1 < rRetries
           /\ rCalls = (rLastErr + 1) + 1
           /\ rRaised = -1
    /\ rPc = "raised" =>
           /\ rCalls = rRetries
           /\ rRaised = rRetries - 1
           /\ rResult = NoPath
    /\ rPc = "call" => rCalls = rAttempt /\ rAttempt < rRetries

\* C7 witness: with a limit of 3, two attempts failed and the third returned.
C7_Witness ==
    /\ rRetries = 3
    /\ rPc = "returned"
    /\ rCalls = 3
    /\ rLastErr = 1

-----------------------------------------------------------------------------
(* Claims about a batch run, checked under Spec (C5: under FairSpec). *)

Assembling == {"combine", "ffmpeg", "finally", "unlink"}

\* The artifacts of chunks 0..N-1 of d, in index order.
InIndexOrder(files, d) == \A k \in 1..Len(files) : files[k] = AudioPath(d, k - 1)

\* Every chunk of d has a finished task that succeeded, and audio_files
\* holds exactly one artifact per chunk index.
AllChunksSucceeded(d) ==
    /\ Len(chunks[d]) >= 1
    /\ Len(tasks[d]) = Len(chunks[d])
    /\ \A i \in 1..Len(tasks[d]) : tasks[d][i].st = "done"
    /\ Len(audio_files[d]) = Len(chunks[d])
    /\ \A i \in 1..Len(chunks[d]) :
          Cardinality({k \in 1..Len(audio_files[d]) :
                          audio_files[d][k] = AudioPath(d, i - 1)}) = 1

\* C1: at any moment at most MAX_WORKERS chunk tasks of one document are
\* in flight and at most MAX_WORKERS documents are inside process_file, so
\* at most MAX_WORKERS * MAX_WORKERS synthesis calls are in flight in all.
C1_BoundedConcurrency ==
    /\ \A d \in Docs : Cardinality(Running(d)) <= MAX_WORKERS
    /\ Cardinality(Processing) <= MAX_WORKERS
    /\ Cardinality(UNION {{<<d, i>> : i \in Running(d)} : d \in Docs})
          <= MAX_WORKERS * MAX_WORKERS

\* C1 witness: both caps bite at once: a document has MAX_WORKERS tasks in
\* flight and one more waiting, while MAX_WORKERS documents are being
\* processed and one more waits.
C1_Witness ==
    /\ Cardinality(Processing) = MAX_WORKERS
    /\ \E e \in Docs : docPc[e] = "queued"
    /\ \E d \in Docs :
          /\ Cardinality(Running(d)) = MAX_WORKERS
          /\ \E i \in 1..Len(tasks[d]) : tasks[d][i].st = "queued"

\* C2: whatever the order in which the chunk tasks finished, the list that
\* process_file hands to combine_audio_files lists the artifacts of chunks
\* 0..N-1 in ascending index order, and that list is what the call writes
\* to the manifest.
C2_ManifestInIndexOrder ==
    /\ [](\A d \in Docs :
            docPc[d] \in Assembling =>
                /\ Len(audio_files[d]) = Len(chunks[d])
                /\ InIndexOrder(audio_files[d], d))
    /\ [][\A d \in Docs :
            (docPc[d] = "combine" /\ docPc'[d] = "ffmpeg") =>
                /\ manifest'.exists
                /\ manifest'.lines = audio_files[d]
                /\ InIndexOrder(manifest'.lines, d)]_vars

\* C2 witness: the futures of chunks 2, 0, 1 were yielded in that order,
\* and the manifest written for the document lists its three artifacts.
C2_Witness ==
    \E d \in Docs :
        /\ docPc[d] = "ffmpeg"
        /\ yielded[d] = <<3, 1, 2>>
        /\ manifest.exists
        /\ manifest.lines = audio_files[d]

\* C3: while combine_audio_files runs for a document, every chunk index of
\* the document has exactly one successful result; a document one of whose
\* chunks failed for good never has a final artifact built; and a document
\* becomes completed only from a state with one artifact per chunk index.
C3_AssemblyOnlyWhenComplete ==
    /\ [](\A d \in Docs :
            /\ docPc[d] \in Assembling => AllChunksSucceeded(d)
            /\ docError[d] = "synthesis" =>
                  docPc[d] \in {"raise", "failed"} /\ ~output[d].built)
    /\ [][\A d \in Docs :
            (docPc[d] # "completed" /\ docPc'[d] = "completed") =>
                docPc[d] \in Assembling /\ AllChunksSucceeded(d)]_vars

\* C3 witness: one document failed for a chunk and has no final artifact,
\* another one was assembled and completed.
C3_Witness ==
    \E d, e \in Docs :
        /\ docPc[d] = "failed"
        /\ docError[d] = "synthesis"
        /\ ~output[d].built
        /\ docPc[e] = "completed"
        /\ output[e].built

\* C4: a source file is under its .processed name only when its document's
\* assembly has succeeded (the document is completed and its final artifact
\* built), and the source of a failed document is still in INPUT_FOLDER.
C4_SourceMovedOnlyAfterAssembly ==
    \A d \in Docs :
        /\ source[d] = "processed" => docPc[d] = "completed" /\ output[d].built
        /\ docPc[d] # "completed" => source[d] = "input"

\* C4 witness: one document completed and its source moved; documents that
\* failed in reading, in synthesis or in assembly keep their source.
C4_Witness ==
    \E d, e \in Docs :
        /\ docPc[d] = "completed"
        /\ source[d] = "processed"
        /\ docPc[e] = "failed"
        /\ docError[e] = "assembly"
        /\ source[e] = "input"

C6_SiblingOutcomesKept ==
    [][\A d \in Docs :
         /\ (docPc[d] = "raise" /\ docPc'[d] = "failed") =>
               /\ Len(tasks[d]) = Len(chunks[d])
               /\ \A i \in 1..Len(tasks[d]) : tasks[d][i].st \in {"done", "failed"}
         /\ (docPc[d] \in {"collect", "raise"} /\ docPc'[d] \in {"collect", "raise"}) =>
               /\ Len(tasks'[d]) = Len(tasks[d])
               /\ \A i \in 1..Len(tasks[d]) :
                     /\ tasks[d][i].st \in {"done", "failed"} => tasks'[d][i] = tasks[d][i]
                     /\ tasks[d][i].st = "running" => tasks'[d][i].st # "queued"]_vars

\* C6 witness: process_file has seen one chunk's terminal failure, and a
\* sibling task that was not yet yielded has finished with its artifact.
C6_Witness ==
    \E d \in Docs :
        /\ docPc[d] = "raise"
        /\ \E i, j \in 1..Len(tasks[d]) :
              /\ tasks[d][i].st = "failed"
              /\ i \in Range(yielded[d])
              /\ tasks[d][j].st = "done"
              /\ j \notin Range(yielded[d])
        /\ \A i \in 1..Len(tasks[d]) : tasks[d][i].st \in {"done", "failed"}

\* C8: once the process has exited, normally or after SIGINT/SIGTERM at any
\* point of the batch, TEMP_FOLDER does not exist.
C8_TempFolderGoneAfterExit ==
    mainPc = "exited" => ~tempExists

\* C13: once process_file has seen the first terminal failure of one of a
\* document's chunks, no chunk task of the document that is still queued
\* starts.
C13_NoNewTaskAfterFailure ==
    [][\A d \in Docs :
         (docPc[d] = "raise" /\ docPc'[d] = "raise") =>
             \A i \in 1..Len(tasks[d]) :
                 tasks[d][i].st = "queued" => tasks'[d][i].st = "queued"]_vars

\* C14: after a signal was received while main() waited for the documents
\* (mainPc is "unwind" from that signal on, until main() leaves the pool),
\* no queued document is dispatched, no queued chunk task starts, no task
\* starts another attempt, no document is completed, and TEMP_FOLDER, which
\* the handler removed, is not created again.
C14_NoNewWorkAfterSignal ==
    [][mainPc = "unwind" =>
         /\ \A d \in Docs :
               /\ docPc[d] = "queued" => docPc'[d] = "queued"
               /\ docPc'[d] = "completed" => docPc[d] = "completed"
               /\ \A i \in 1..Len(tasks[d]) :
                     /\ tasks[d][i].st = "queued" => tasks'[d][i].st = "queued"
                     /\ (tasks[d][i].st = "running" /\ i \in 1..Len(tasks'[d])) =>
                            tasks'[d][i].attempt <= tasks[d][i].attempt
         /\ tempExists' => tempExists]_vars

\* C15: the tasks of two different documents never write, overwrite or
\* delete the same working-area file: combine_audio_files never writes its
\* manifest over a manifest that is there (another document's), and never
\* unlinks a manifest other than the one it wrote.
C15_NoSharedWorkingFile ==
    [][\A d \in Docs :
         /\ (docPc[d] = "combine" /\ docPc'[d] = "ffmpeg") => ~manifest.exists
         /\ (docPc[d] = "unlink" /\ manifest.exists /\ ~manifest'.exists) =>
                manifest.lines = audio_files[d]]_vars

\* C16: from the moment combine_audio_files has written document d's
\* manifest until ffmpeg has read it, the manifest exists and lists d's own
\* artifacts in index order; and a final artifact was built only from its
\* own document's chunks, all of them, in index order.
C16_ManifestIsOwn ==
    \A d \in Docs :
        /\ docPc[d] = "ffmpeg" =>
               /\ manifest.exists
               /\ manifest.lines = audio_files[d]
        /\ output[d].built =>
               /\ output[d].from # <<>>
               /\ InIndexOrder(output[d].from, d)
        /\ (docPc[d] \in {"finally", "unlink"} /\ ffmpegOk[d]) =>
               output[d].from = audio_files[d]

\* C17: when combine_audio_files has exited for a document, the manifest it
\* wrote is gone, and a document whose ffmpeg run built the final artifact
\* is not failed by the removal of the manifest.
C17_ManifestCleanupHarmless ==
    \A d \in Docs :
        /\ docPc[d] \in {"completed", "failed"} =>
               ~(manifest.exists /\ InIndexOrder(manifest.lines, d))
        /\ output[d].built => docPc[d] \in {"finally", "unlink", "completed"}

-----------------------------------------------------------------------------

\* One call of split_text_into_chunks, for every text and max_length.
InitSplit == SplitInit /\ RetryIdle /\ BatchIdle

SpecSplit == InitSplit /\ [][SplitNext]_vars

\* The same call, run by a thread that is not stopped.
FairSpecSplit == InitSplit /\ [][SplitNext]_vars /\ WF_vars(SplitNext)

\* One call of generate_audio_with_retries, for every retry limit.
InitRetry == RetryInit /\ SplitIdle /\ BatchIdle

SpecRetry == InitRetry /\ [][RetryNext]_vars

Init == BatchInit /\ SplitIdle /\ RetryIdle

Next == BatchNext

Spec == Init /\ [][Next]_vars

\* A batch run that no signal interrupts, in which every thread that can
\* take a step eventually does (the scheduler starves no thread, and every
\* call to the service or to ffmpeg returns).
FairSpec == Init /\ [][BatchStep]_vars /\ WF_vars(BatchStep)

=============================================================================
